---------------------------- MODULE Spec2Model ----------------------------
(***************************************************************************)
(* Model of convert_bmp.py: a command-line script that opens one image     *)
(* file with the imaging library and saves it as PNG at a second path.     *)
(*                                                                         *)
(* The script is modelled statement by statement (pc names the line about  *)
(* to run).  The filesystem persists from one invocation to the next, so   *)
(* that consecutive runs can be compared.  The imaging library is outside  *)
(* the repository: its two calls are modelled by their outcome on the      *)
(* file they are given (open: missing / unreadable / unidentifiable file   *)
(* raises; save: undecodable pixel data or an unwritable destination       *)
(* raises, otherwise the destination holds the PNG encoding of the         *)
(* pixels).  The image kind "image" stands for a file the library decodes  *)
(* and can encode as PNG, which every BMP pixel mode is.  Standard output  *)
(* is assumed to accept every write.                                       *)
(***************************************************************************)
EXTENDS Integers, Sequences, FiniteSets, TLC

\* ------------------------------------------------------------------ bounds
MaxArgs == 3        \* most command-line arguments (program name excluded)
MaxRuns == 2        \* invocations in sequence over the same filesystem

\* ------------------------------------------------------------- environment
Paths   == {"a.bmp", "b.png"}
Pixels  == {"px1", "px2"}
Extra   == "extra"                      \* an argument past the second
Prog    == "convert_bmp.py"             \* sys.argv[0]
Unset   == "<unset>"                    \* a name not yet bound
Running == -1                           \* no exit code yet

\* A file: what the path holds.
Absent         == [kind |-> "absent",    fmt |-> "-",   pixels |-> "-"]
NoPerm         == [kind |-> "noperm",    fmt |-> "-",   pixels |-> "-"]
Junk           == [kind |-> "junk",      fmt |-> "-",   pixels |-> "-"]
Truncated      == [kind |-> "truncated", fmt |-> "BMP", pixels |-> "-"]
ImageFile(f, p) == [kind |-> "image",    fmt |-> f,     pixels |-> p]

InitialFiles == {Absent, NoPerm, Junk, Truncated} \cup {ImageFile("BMP", p) : p \in Pixels}

\* Command lines: 0 .. MaxArgs arguments; the program reads only the first two.
RECURSIVE Extras(_)
Extras(n) == IF n <= 0 THEN <<>> ELSE <<Extra>> \o Extras(n - 1)

ArgVectors ==
    {<<>>} \cup {<<p>> : p \in Paths}
           \cup {<<p, q>> \o Extras(k) : p \in Paths, q \in Paths, k \in 0..(MaxArgs - 2)}

NoImg  == [bound |-> FALSE, pixels |-> "-", whole |-> FALSE, closed |-> FALSE]
NoExc  == [type |-> "-", msg |-> <<>>]
NoPrev == [argv |-> <<>>, exitCode |-> Running, stdout |-> <<>>, out |-> Absent]

VARIABLES
    argv,         \* sys.argv of the current run
    pc,           \* the line about to run, or "exited"
    input_path,   \* line 8
    output_path,  \* line 9
    img,          \* line 12: the image handle
    exc,          \* line 15: the caught exception e
    stdout,       \* lines printed by the current run
    exitCode,     \* the process's exit status
    fs,           \* path -> file
    writable,     \* path -> whether the path can be created/overwritten
    fsLog,        \* history: library calls on the filesystem made by this run
    fs0,          \* history: the filesystem when this run started
    prev,         \* history: summary of the previous run
    run           \* number of the current run

vars == <<argv, pc, input_path, output_path, img, exc, stdout, exitCode,
          fs, writable, fsLog, fs0, prev, run>>

\* ------------------------------------------------------------ pure helpers
\* line 4: len(sys.argv) != 3
\* (faulty variant: 'fewer than' in place of 'not equal')
ArgCountBad_m(a) == Len(a) < 3
ArgCountBad(a) == Len(a) # 3

\* str(e): the exception's message
\* (faulty variant: the exception's type name in place of its message)
Str_m(e) == <<e.type>>
Str(e) == e.msg

\* line 5
UsageLine == <<"Usage: python convert_bmp.py input.bmp output.png">>
\* line 14
SuccessLine(i, o) == <<"Converted ", i, " to ", o>>
\* line 16
ErrorLine(e) == <<"Error: ">> \o Str(e)

\* the PNG encoder and the decoder
\* (faulty variant: the format argument dropped, the source's format kept)
EncodePNG_m(p) == ImageFile("BMP", p)
EncodePNG(p) == ImageFile("PNG", p)
Decode(f) == IF f.kind = "image" THEN f.pixels ELSE "-"

\* Image.open(path): a handle, or the exception raised
OpenResult(path) ==
    LET f == fs[path] IN
    CASE f.kind = "absent" ->
           [ok |-> FALSE, img |-> NoImg,
            exc |-> [type |-> "FileNotFoundError",
                     msg |-> <<"[Errno 2] No such file or directory: ", path>>]]
      [] f.kind = "noperm" ->
           [ok |-> FALSE, img |-> NoImg,
            exc |-> [type |-> "PermissionError",
                     msg |-> <<"[Errno 13] Permission denied: ", path>>]]
      [] f.kind = "junk" ->
           [ok |-> FALSE, img |-> NoImg,
            exc |-> [type |-> "UnidentifiedImageError",
                     msg |-> <<"cannot identify image file ", path>>]]
      [] OTHER ->
           [ok |-> TRUE,
            img |-> [bound |-> TRUE, pixels |-> f.pixels,
                     whole |-> (f.kind = "image"), closed |-> FALSE],
            exc |-> NoExc]

\* img.save(path, 'PNG'): the filesystem afterwards, or the exception raised
\* (faulty variant: the destination is created exclusively)
SaveResult_x(im, path) ==
    IF ~im.whole
    THEN [ok |-> FALSE, fs |-> fs,
          exc |-> [type |-> "OSError", msg |-> <<"image file is truncated">>]]
    ELSE IF ~writable[path]
    THEN [ok |-> FALSE, fs |-> fs,
          exc |-> [type |-> "PermissionError",
                   msg |-> <<"[Errno 13] Permission denied: ", path>>]]
    ELSE IF fs[path].kind # "absent"
    THEN [ok |-> FALSE, fs |-> fs,
          exc |-> [type |-> "FileExistsError",
                   msg |-> <<"[Errno 17] File exists: ", path>>]]
    ELSE [ok |-> TRUE, fs |-> [fs EXCEPT ![path] = EncodePNG(im.pixels)], exc |-> NoExc]
SaveResult(im, path) ==
    IF ~im.whole
    THEN [ok |-> FALSE, fs |-> fs,
          exc |-> [type |-> "OSError", msg |-> <<"image file is truncated">>]]
    ELSE IF ~writable[path]
    THEN [ok |-> FALSE, fs |-> fs,
          exc |-> [type |-> "PermissionError",
                   msg |-> <<"[Errno 13] Permission denied: ", path>>]]
    ELSE [ok |-> TRUE, fs |-> [fs EXCEPT ![path] = EncodePNG(im.pixels)], exc |-> NoExc]

LogEntry(op, path, r) == [op |-> op, path |-> path, ok |-> r.ok, exc |-> r.exc]

\* ------------------------------------------------------------------- state
Init ==
    /\ argv \in {<<Prog>> \o a : a \in ArgVectors}
    /\ pc = "L4"
    /\ input_path = Unset
    /\ output_path = Unset
    /\ img = NoImg
    /\ exc = NoExc
    /\ stdout = <<>>
    /\ exitCode = Running
    /\ fs \in [Paths -> InitialFiles]
    /\ writable \in [Paths -> BOOLEAN]
    /\ fsLog = <<>>
    /\ fs0 = fs
    /\ prev = NoPrev
    /\ run = 1

\* ----------------------------------------------------------------- actions
\* line 4: if len(sys.argv) != 3
CheckArgs ==
    /\ pc = "L4"
    /\ pc' = IF ArgCountBad(argv) THEN "L5" ELSE "L8"
    /\ UNCHANGED <<argv, input_path, output_path, img, exc, stdout, exitCode,
                   fs, writable, fsLog, fs0, prev, run>>

\* line 5: print the usage message
PrintUsage ==
    /\ pc = "L5"
    /\ stdout' = Append(stdout, UsageLine)
    /\ pc' = "L6"
    /\ UNCHANGED <<argv, input_path, output_path, img, exc, exitCode,
                   fs, writable, fsLog, fs0, prev, run>>

\* line 6: sys.exit(1)
ExitUsage ==
    /\ pc = "L6"
    /\ exitCode' = 1
    /\ pc' = "exited"
    /\ UNCHANGED <<argv, input_path, output_path, img, exc, stdout,
                   fs, writable, fsLog, fs0, prev, run>>

\* lines 8-9: input_path = sys.argv[1]; output_path = sys.argv[2]
\* (faulty variant: the two indices exchanged)
AssignPaths_swapped ==
    /\ pc = "L8"
    /\ input_path' = argv[3]
    /\ output_path' = argv[2]
    /\ pc' = "L12"
    /\ UNCHANGED <<argv, img, exc, stdout, exitCode,
                   fs, writable, fsLog, fs0, prev, run>>
AssignPaths ==
    /\ pc = "L8"
    /\ input_path' = argv[2]
    /\ output_path' = argv[3]
    /\ pc' = "L12"
    /\ UNCHANGED <<argv, img, exc, stdout, exitCode,
                   fs, writable, fsLog, fs0, prev, run>>

\* line 12: img = Image.open(input_path), inside try
\* (faulty variant: a failed open does not leave the try block)
Open_swallow ==
    /\ pc = "L12"
    /\ LET r == OpenResult(input_path) IN
         /\ fsLog' = Append(fsLog, LogEntry("open", input_path, r))
         /\ img' = r.img
         /\ exc' = r.exc
         /\ pc' = "L13"
    /\ UNCHANGED <<argv, input_path, output_path, stdout, exitCode,
                   fs, writable, fs0, prev, run>>
Open ==
    /\ pc = "L12"
    /\ LET r == OpenResult(input_path) IN
         /\ fsLog' = Append(fsLog, LogEntry("open", input_path, r))
         /\ IF r.ok
            THEN /\ img' = r.img
                 /\ pc' = "L13"
                 /\ exc' = exc
            ELSE /\ exc' = r.exc
                 /\ pc' = "L16"
                 /\ img' = img
    /\ UNCHANGED <<argv, input_path, output_path, stdout, exitCode,
                   fs, writable, fs0, prev, run>>

\* line 13: img.save(output_path, 'PNG'), inside try
\* (faulty variant: the save is given the input path)
Save_toInput ==
    /\ pc = "L13"
    /\ LET r == SaveResult(img, input_path) IN
         /\ fsLog' = Append(fsLog, LogEntry("save", output_path, r))
         /\ fs' = r.fs
         /\ IF r.ok
            THEN pc' = "L14" /\ exc' = exc
            ELSE pc' = "L16" /\ exc' = r.exc
    /\ UNCHANGED <<argv, input_path, output_path, img, stdout, exitCode,
                   writable, fs0, prev, run>>
\* (faulty variant: the confirmation is printed before the save returns)
Save_printFirst ==
    /\ pc = "L13"
    /\ LET r == SaveResult(img, output_path) IN
         /\ fsLog' = Append(fsLog, LogEntry("save", output_path, r))
         /\ fs' = r.fs
         /\ stdout' = Append(stdout, SuccessLine(input_path, output_path))
         /\ IF r.ok
            THEN pc' = "end" /\ exc' = exc
            ELSE pc' = "L16" /\ exc' = r.exc
    /\ UNCHANGED <<argv, input_path, output_path, img, exitCode,
                   writable, fs0, prev, run>>
Save ==
    /\ pc = "L13"
    /\ LET r == SaveResult(img, output_path) IN
         /\ fsLog' = Append(fsLog, LogEntry("save", output_path, r))
         /\ fs' = r.fs
         /\ IF r.ok
            THEN pc' = "L14" /\ exc' = exc
            ELSE pc' = "L16" /\ exc' = r.exc
    /\ UNCHANGED <<argv, input_path, output_path, img, stdout, exitCode,
                   writable, fs0, prev, run>>

\* line 14: print(f"Converted {input_path} to {output_path}")
PrintSuccess ==
    /\ pc = "L14"
    /\ stdout' = Append(stdout, SuccessLine(input_path, output_path))
    /\ pc' = "end"
    /\ UNCHANGED <<argv, input_path, output_path, img, exc, exitCode,
                   fs, writable, fsLog, fs0, prev, run>>

\* the script runs off its last line: the interpreter exits with status 0
ExitNormal ==
    /\ pc = "end"
    /\ exitCode' = 0
    /\ pc' = "exited"
    /\ UNCHANGED <<argv, input_path, output_path, img, exc, stdout,
                   fs, writable, fsLog, fs0, prev, run>>

\* lines 15-16: except Exception as e: print(f"Error: {e}")
\* (faulty variant: the handler goes back to the open)
PrintError_retry ==
    /\ pc = "L16"
    /\ stdout' = Append(stdout, ErrorLine(exc))
    /\ pc' = IF Len(fsLog) < 3 THEN "L12" ELSE "L17"
    /\ UNCHANGED <<argv, input_path, output_path, img, exc, exitCode,
                   fs, writable, fsLog, fs0, prev, run>>
PrintError ==
    /\ pc = "L16"
    /\ stdout' = Append(stdout, ErrorLine(exc))
    /\ pc' = "L17"
    /\ UNCHANGED <<argv, input_path, output_path, img, exc, exitCode,
                   fs, writable, fsLog, fs0, prev, run>>

\* line 17: sys.exit(1)
ExitError ==
    /\ pc = "L17"
    /\ exitCode' = 1
    /\ pc' = "exited"
    /\ UNCHANGED <<argv, input_path, output_path, img, exc, stdout,
                   fs, writable, fsLog, fs0, prev, run>>

\* the program is invoked again; only the filesystem survives the process
NextRun ==
    /\ pc = "exited"
    /\ run < MaxRuns
    /\ run' = run + 1
    /\ prev' = [argv |-> argv, exitCode |-> exitCode, stdout |-> stdout,
                out |-> IF output_path = Unset THEN Absent ELSE fs[output_path]]
    /\ argv' \in {<<Prog>> \o a : a \in ArgVectors}
    /\ pc' = "L4"
    /\ input_path' = Unset
    /\ output_path' = Unset
    /\ img' = NoImg
    /\ exc' = NoExc
    /\ stdout' = <<>>
    /\ exitCode' = Running
    /\ fsLog' = <<>>
    /\ fs0' = fs
    /\ UNCHANGED <<fs, writable>>

Next ==
    \/ CheckArgs
    \/ PrintUsage
    \/ ExitUsage
    \/ AssignPaths
    \/ Open
    \/ Save
    \/ PrintSuccess
    \/ ExitNormal
    \/ PrintError
    \/ ExitError
    \/ NextRun

Spec == Init /\ [][Next]_vars

\* ------------------------------------------------------------- observations
NArgs == Len(argv) - 1
Exited == pc = "exited"
LogIdx == 1..Len(fsLog)
Opens == Cardinality({i \in LogIdx : fsLog[i].op = "open"})
Saves == Cardinality({i \in LogIdx : fsLog[i].op = "save"})
Failed == \E i \in LogIdx : ~fsLog[i].ok
IsUsageLine(l) == l = UsageLine
IsSuccessLine(l) == Len(l) = 4 /\ l[1] = "Converted " /\ l[3] = " to "
IsErrorLine(l) == Len(l) >= 1 /\ l[1] = "Error: "
SuccessPrinted == \E i \in 1..Len(stdout) : IsSuccessLine(stdout[i])

\* ------------------------------------------------------------------ claims

\* C1: a run whose argument count (program name excluded) is not two never
\* opens or saves a file and leaves the filesystem as it found it; it runs
\* only lines 4-6, and once it has exited it has printed exactly the usage
\* message and its exit code is 1.
C1_UsageNoFileAccess ==
    NArgs # 2 =>
        /\ fsLog = <<>>
        /\ fs = fs0
        /\ pc \in {"L4", "L5", "L6", "exited"}
        /\ Exited => (stdout = <<UsageLine>> /\ exitCode = 1)

C1_Witness == Exited /\ NArgs = 3 /\ stdout = <<UsageLine>> /\ exitCode = 1

\* C2: whenever the success line is on standard output, it names the two
\* arguments, the save to the output path has been made and succeeded, the
\* output path holds a PNG image, and a run that has exited has code 0.
C2_SuccessImpliesSaved ==
    SuccessPrinted =>
        /\ NArgs = 2
        /\ stdout = <<SuccessLine(argv[2], argv[3])>>
        /\ \E i \in LogIdx :
              fsLog[i].op = "save" /\ fsLog[i].path = argv[3] /\ fsLog[i].ok
        /\ fs[argv[3]].kind = "image"
        /\ fs[argv[3]].fmt = "PNG"
        /\ Exited => exitCode = 0

C2_Witness ==
    pc = "end" /\ SuccessPrinted /\ fs0[argv[3]].kind = "absent" /\ fs[argv[3]].fmt = "PNG"

\* C3: with two arguments, every failure raised by the open or by the save
\* reaches the handler: the success line is never printed, the only line
\* printed is "Error: " followed by that failure's own message, and the run
\* exits with code 1.
C3_FailureReported ==
    NArgs = 2 =>
        \A i \in LogIdx :
            ~fsLog[i].ok =>
                /\ ~SuccessPrinted
                /\ pc \in {"L16", "L17", "exited"}
                /\ pc \in {"L17", "exited"} =>
                       stdout = << <<"Error: ">> \o fsLog[i].exc.msg >>
                /\ Exited => exitCode = 1

C3_Witness ==
    /\ Exited
    /\ Len(fsLog) = 2
    /\ fsLog[2].op = "save"
    /\ ~fsLog[2].ok
    /\ fsLog[2].exc.type = "PermissionError"
    /\ stdout = << <<"Error: ", "[Errno 13] Permission denied: ", argv[3]>> >>

\* C4: a run never has more than one line on standard output, and a run that
\* has exited has exactly one: the usage line, the success line or an error line.
C4_ExactlyOneLine ==
    /\ Len(stdout) <= 1
    /\ Exited =>
          /\ Len(stdout) = 1
          /\ \/ IsUsageLine(stdout[1])
             \/ IsSuccessLine(stdout[1])
             \/ IsErrorLine(stdout[1])

C4_Witness == Exited /\ Failed /\ Len(stdout) = 1 /\ IsErrorLine(stdout[1])

\* C5: with two arguments of which the first names no file, the save is never
\* attempted, the file at the second argument stays as it was (none is
\* created), the success line is not printed, and the exited run has printed
\* one line starting with "Error: " and has code 1.
C5_MissingInput ==
    (NArgs = 2 /\ fs0[argv[2]].kind = "absent") =>
        /\ Saves = 0
        /\ fs[argv[3]] = fs0[argv[3]]
        /\ ~SuccessPrinted
        /\ Exited =>
              /\ Len(stdout) = 1
              /\ IsErrorLine(stdout[1])
              /\ exitCode = 1

C5_Witness ==
    /\ Exited
    /\ NArgs = 2
    /\ fs0[argv[2]].kind = "absent"
    /\ argv[3] # argv[2]
    /\ writable[argv[3]]
    /\ fs[argv[3]].kind = "absent"
    /\ Opens = 1

\* C6: a run with arguments (A, B), A holding a decodable image and B
\* writable, hands the pixels decoded from A to the save, and once it has
\* exited B holds a PNG whose decoded pixels are those of A, the only line
\* printed is "Converted A to B" and the exit code is 0.
C6_ConvertsImage ==
    (NArgs = 2 /\ fs0[argv[2]].kind = "image" /\ writable[argv[3]]) =>
        /\ img.bound => img.pixels = Decode(fs0[argv[2]])
        /\ Exited =>
              /\ fs[argv[3]].kind = "image"
              /\ fs[argv[3]].fmt = "PNG"
              /\ Decode(fs[argv[3]]) = Decode(fs0[argv[2]])
              /\ stdout = <<SuccessLine(argv[2], argv[3])>>
              /\ exitCode = 0

C6_Witness ==
    /\ Exited
    /\ NArgs = 2
    /\ argv[2] # argv[3]
    /\ fs0[argv[2]] = ImageFile("BMP", "px2")
    /\ fs0[argv[3]] = ImageFile("BMP", "px1")
    /\ fs[argv[3]] = ImageFile("PNG", "px2")

\* C7: when a run that succeeded is followed by a run with the same arguments,
\* the second run also exits with code 0, prints the same success line, and
\* leaves at the output path an image with the same decoded pixels.
C7_RepeatSameResult ==
    (Exited /\ run > 1 /\ prev.argv = argv /\ prev.exitCode = 0) =>
        /\ exitCode = 0
        /\ stdout = prev.stdout
        /\ SuccessPrinted
        /\ fs[argv[3]].kind = "image"
        /\ Decode(fs[argv[3]]) = Decode(prev.out)

C7_Witness ==
    /\ Exited
    /\ run > 1
    /\ prev.argv = argv
    /\ prev.exitCode = 0
    /\ argv[2] # argv[3]
    /\ exitCode = 0
    /\ Decode(fs[argv[3]]) = "px1"

\* C8: once a status line is printed, an image handle that was obtained from
\* the open has been released.
C8_HandleReleased ==
    (img.bound /\ Len(stdout) > 0) => img.closed

\* C9: in one run the open is attempted at most once and the save at most
\* once, the save only as the call right after a successful open; a failed
\* call is the last call of the run; a run with a wrong argument count makes
\* no call; and a run that exited after a usage error or a failed call has code 1.
C9_NoRetry ==
    /\ Opens <= 1
    /\ Saves <= 1
    /\ Saves = 1 =>
          /\ Len(fsLog) = 2
          /\ fsLog[1].op = "open"
          /\ fsLog[1].ok
          /\ fsLog[2].op = "save"
    /\ \A i \in LogIdx : ~fsLog[i].ok => i = Len(fsLog)
    /\ NArgs # 2 => fsLog = <<>>
    /\ (Exited /\ (NArgs # 2 \/ Failed)) => exitCode = 1

C9_Witness ==
    /\ Exited
    /\ Len(fsLog) = 2
    /\ fsLog[1].ok
    /\ ~fsLog[2].ok
    /\ exitCode = 1

\* C10: the only file a run changes is the one named by its second argument,
\* and only a run with exactly two arguments changes any; so when the two
\* arguments differ the file at the input path is left as the run found it.
C10_InputNotWritten ==
    /\ \A p \in Paths : fs[p] # fs0[p] => (NArgs = 2 /\ p = argv[3])
    /\ (NArgs = 2 /\ argv[2] # argv[3]) => fs[argv[2]] = fs0[argv[2]]

C10_Witness ==
    /\ Exited
    /\ NArgs = 2
    /\ argv[2] # argv[3]
    /\ fs[argv[3]] # fs0[argv[3]]
    /\ fs[argv[2]] = fs0[argv[2]]
    /\ fs0[argv[2]].kind = "image"


=============================================================================
